---------------------------- MODULE Spec2Model ----------------------------
(***************************************************************************)
(* Model of create_test_job.py: the one-click generator of the sports      *)
(* team test job (folders, camera-style images in Extracted, roster.csv).  *)
(*                                                                         *)
(* Text is modelled as a sequence of one-character strings, so that        *)
(* formatting, splitting and CSV encoding are computed character by        *)
(* character as the code computes them.                                    *)
(***************************************************************************)
EXTENDS Integers, Sequences, FiniteSets, TLC

(***************************************************************************)
(* Bounds of the model                                                     *)
(***************************************************************************)

\* The generator's output streams are taken from the family given by
\* StreamPeriod seed values and a drift (see Streams and RawOutput).
StreamPeriod == 2

\* Number of processes (invocations of main) started one after the other.
MaxRuns == 2

(***************************************************************************)
(* Text helpers (Python str operations used by the code)                   *)
(***************************************************************************)

DigitChars == <<"0","1","2","3","4","5","6","7","8","9">>

\* str(n) for n >= 0: the decimal digits of n
RECURSIVE Digits(_)
Digits(n) == IF n < 10 THEN <<DigitChars[n + 1]>>
             ELSE Digits(n \div 10) \o <<DigitChars[(n % 10) + 1]>>

RECURSIVE Zeros(_)
Zeros(k) == IF k <= 0 THEN <<>> ELSE <<"0">> \o Zeros(k - 1)

\* "{:0Wd}".format(n): zero-padded to a minimum width, never truncated
ZeroPad(n, width) == Zeros(width - Len(Digits(n))) \o Digits(n)

\* Index of the first occurrence of character c in s, 0 if none
RECURSIVE FindFrom(_, _, _)
FindFrom(s, c, i) == IF i > Len(s) THEN 0
                     ELSE IF s[i] = c THEN i
                     ELSE FindFrom(s, c, i + 1)

\* s.split(" ", 1): at most one split, at the first space
SplitOnce(s) == LET i == FindFrom(s, " ", 1)
                IN  IF i = 0 THEN <<s>>
                    ELSE <<SubSeq(s, 1, i - 1), SubSeq(s, i + 1, Len(s))>>

\* sep.join(parts)
RECURSIVE JoinWith(_, _)
JoinWith(sep, parts) ==
    IF parts = <<>> THEN <<>>
    ELSE IF Len(parts) = 1 THEN parts[1]
    ELSE parts[1] \o sep \o JoinWith(sep, Tail(parts))

(***************************************************************************)
(* Module-level tables                                                     *)
(***************************************************************************)

TEAMS == <<
  [team |-> <<"T","i","g","e","r","s">>,
   players |-> << <<"J","o","h","n"," ","D","o","e">>,
                  <<"A","m","y"," ","S","m","i","t","h">>,
                  <<"C","a","r","l","o","s"," ","R","e","y","e","s">>,
                  <<"M","i","a"," ","C","h","e","n">>,
                  <<"E","v","a","n"," ","P","a","t","e","l">> >>],
  [team |-> <<"H","a","w","k","s">>,
   players |-> << <<"L","i","a","m"," ","J","o","h","n","s","o","n">>,
                  <<"N","o","a","h"," ","D","a","v","i","s">>,
                  <<"O","l","i","v","i","a"," ","L","e","e">>,
                  <<"E","m","m","a"," ","B","r","o","w","n">>,
                  <<"A","v","a"," ","W","i","l","s","o","n">> >>],
  [team |-> <<"S","h","a","r","k","s">>,
   players |-> << <<"M","a","s","o","n"," ","C","l","a","r","k">>,
                  <<"L","u","c","a","s"," ","M","a","r","t","i","n","e","z">>,
                  <<"S","o","p","h","i","a"," ","T","a","y","l","o","r">>,
                  <<"I","s","a","b","e","l","l","a"," ","M","o","o","r","e">>,
                  <<"M","i","a"," ","A","n","d","e","r","s","o","n">> >>] >>

\* Variant: two patterns of the same shape with adjacent base offsets
CAMERA_PATTERNS_adjacent == <<
  [prefix |-> <<"I","M","G","_">>, width |-> 4, suffix |-> <<".","J","P","G">>,
   base |-> 2000],
  [prefix |-> <<"I","M","G","_">>, width |-> 4, suffix |-> <<".","J","P","G">>,
   base |-> 2001],
  [prefix |-> <<"P">>, width |-> 7, suffix |-> <<".","J","P","G">>,
   base |-> 1000000] >>

\* ("IMG_{:04d}.JPG", 2000), ("DSC_{:04d}.JPG", 5000), ("P{:07d}.JPG", 1000000)
CAMERA_PATTERNS == <<
  [prefix |-> <<"I","M","G","_">>, width |-> 4, suffix |-> <<".","J","P","G">>,
   base |-> 2000],
  [prefix |-> <<"D","S","C","_">>, width |-> 4, suffix |-> <<".","J","P","G">>,
   base |-> 5000],
  [prefix |-> <<"P">>, width |-> 7, suffix |-> <<".","J","P","G">>,
   base |-> 1000000] >>

\* Variant: a pose count outside 2..4
POSE_COUNTS_wide == <<2, 2, 3, 5>>

\* The population of RANDOM.choice([2, 2, 3, 4])
POSE_COUNTS == <<2, 2, 3, 4>>

\* pattern.format(n)
FormatPattern(pattern, n) ==
    pattern.prefix \o ZeroPad(n, pattern.width) \o pattern.suffix


(***************************************************************************)
(* State                                                                   *)
(***************************************************************************)

VARIABLES
    stream,         \* RANDOM: the output stream fixed by the seed 207
    rngPos,         \* RANDOM: number of draws made by the current process
    dirs,           \* directories under base_path: "" is job_path itself
    files,          \* path <<directory, name>> -> content
    runs,           \* number of processes started so far (the clock of mtime)
    pc,             \* position of the current process
    status,         \* what the last main() returned: -1 none yet, 0 or 1
    mkIdx,          \* index of the mkdir loop over the required structure
    ti, pi,         \* indexes of the loops over TEAMS and over players
    pose_count, pose_idx,
    counter, rows, created_files,
    pose_counts,    \* the values pose_count took, one per player so far
    prev            \* what the last successful process produced

vars == <<stream, rngPos, dirs, files, runs, pc, status, mkIdx, ti, pi,
          pose_count, pose_idx, counter, rows, created_files, pose_counts,
          prev>>

\* Path components of create_sports_test_job
JOB == ""
EXTRACTED == "Extracted"
OUTPUT == "Output"
FINISHED == "Finished Teams"
FOR_UPLOAD == "For Upload"

\* for p in [extracted, output, finished, for_upload]
STRUCTURE == <<EXTRACTED, OUTPUT, FINISHED, FOR_UPLOAD>>

ROSTER_CSV == <<"r","o","s","t","e","r",".","c","s","v">>
README_NAME == <<"T","E","S","T","_","I","N","S","T","R","U","C","T","I","O","N","S",".","m","d">>
INVALID_NAME == <<"I","M","G",":","I","N","V","A","L","I","D","<",">","N","A","M","E",".","J","P","G">>
CSV_HEADER == << <<"o","r","i","g","i","n","a","l">>, <<"f","i","r","s","t">>,
                 <<"l","a","s","t">>, <<"c","o","l","4">>, <<"c","o","l","5">>,
                 <<"c","o","l","6">>, <<"t","e","a","m">>, <<"g","r","o","u","p">> >>

\* File contents: an image carries its title and subtitle, the table its lines
Image(title, subtitle, now) ==
    [kind |-> "image", body |-> <<title, subtitle>>, mtime |-> now]
Table(lines, now) == [kind |-> "csv", body |-> lines, mtime |-> now]
Text(parts, now) == [kind |-> "text", body |-> parts, mtime |-> now]
\* what an interrupted write leaves behind
Partial(now) == [kind |-> "partial", body |-> <<>>, mtime |-> now]

WriteFile(f, path, content) ==
    [p \in (DOMAIN f) \cup {path} |-> IF p = path THEN content ELSE f[p]]

NoFiles == [p \in {} |-> Partial(0)]

\* Files a fixture of the same name may hold before the first run
StaleFiles == {
    <<EXTRACTED, <<"O","L","D","_","0","0","0","1",".","J","P","G">> >>,
    <<EXTRACTED, <<"I","M","G","_","2","0","0","1",".","J","P","G">> >>,
    <<OUTPUT, <<"n","o","t","e","s",".","t","x","t">> >>,
    <<JOB, ROSTER_CSV>> }

NoPrev == [valid |-> FALSE, table |-> <<>>, names |-> {}]

\* One raw output selects an item of the largest population drawn from
RawValues == 0..(Len(POSE_COUNTS) - 1)

\* The streams the seeded generator may produce: the seed values repeat with
\* the period, shifted on every cycle by the drift (drift 0: periodic streams,
\* among them the constant ones; drift 1: every value occurs at every place)
Streams == [seed : [1..StreamPeriod -> RawValues], drift : {0, 1}]

Init ==
    /\ stream \in Streams
    /\ rngPos = 0
    /\ \/ dirs = {} /\ files = NoFiles
       \/ \E S \in SUBSET StaleFiles :
            /\ dirs = {JOB} \cup {p[1] : p \in S}
            /\ files = [p \in S |-> Partial(0)]
    /\ runs = 0
    /\ pc = "idle"
    /\ status = -1
    /\ mkIdx = 1
    /\ ti = 1 /\ pi = 1
    /\ pose_count = 0 /\ pose_idx = 0
    /\ counter = 1
    /\ rows = <<>>
    /\ created_files = <<>>
    /\ pose_counts = <<>>
    /\ prev = NoPrev

(***************************************************************************)
(* RANDOM = random.Random(207)                                             *)
(***************************************************************************)

\* The output of the generator at its current position
RawOutput ==
    (stream.seed[(rngPos % StreamPeriod) + 1]
       + stream.drift * (rngPos \div StreamPeriod)) % Cardinality(RawValues)

\* RANDOM.choice(population): the next output of the generator picks the item
RandomChoice(population) == population[(RawOutput % Len(population)) + 1]

\* Variant: the counter is left out of the formatted number
CameraName_nocounter(pb, c) == FormatPattern(pb, pb.base)

\* return pattern.format(base + counter)
CameraName(pb, c) == FormatPattern(pb, pb.base + c)

\* def next_camera_name(counter); the caller advances rngPos by one draw
next_camera_name(c) == CameraName(RandomChoice(CAMERA_PATTERNS), c)

\* def create_test_image(path, title, subtitle): img.save(path) on success
create_test_image(path, title, subtitle) ==
    WriteFile(files, path, Image(title, subtitle, runs))

\* What a write that raises leaves at its path: nothing new, or a truncated file
FailedWrite(path) == {files, WriteFile(files, path, Partial(runs))}

(***************************************************************************)
(* csv.writer (excel dialect: QUOTE_MINIMAL, doublequote, "\r\n")          *)
(***************************************************************************)

CsvSpecial == {",", "\"", "\r", "\n"}

NeedsQuote(field) == \E i \in 1..Len(field) : field[i] \in CsvSpecial

RECURSIVE DoubleQuotes(_)
DoubleQuotes(field) ==
    IF field = <<>> THEN <<>>
    ELSE (IF Head(field) = "\"" THEN <<"\"", "\"">> ELSE <<Head(field)>>)
         \o DoubleQuotes(Tail(field))

CsvField(field) ==
    IF NeedsQuote(field) THEN <<"\"">> \o DoubleQuotes(field) \o <<"\"">>
    ELSE field

\* w.writerow(r): the line written to the file
writerow(r) ==
    JoinWith(<<",">>, [i \in 1..Len(r) |-> CsvField(r[i])]) \o <<"\r", "\n">>

(***************************************************************************)
(* create_sports_test_job: expressions                                     *)
(***************************************************************************)

Team == TEAMS[ti].team
Player == TEAMS[ti].players[pi]
\* first, last = player.split(" ", 1)
First(player) == SplitOnce(player)[1]
Last(player) == SplitOnce(player)[2]

\* subtitle = f"{player} - Pose {pose_idx}"
PoseSubtitle(player, k) ==
    player \o <<" ","-"," ","P","o","s","e"," ">> \o Digits(k)

\* Variant: one filler column short
MakeRow_short(cam_name, first, last, team) ==
    <<cam_name, first, last, <<>>, <<>>, team, team>>

\* The metadata row of one shot
MakeRow(cam_name, first, last, team) ==
    <<cam_name, first, last, <<>>, <<>>, <<>>, team, team>>

\* Variant: the name parts joined by "_" throughout
conflict_newname_underscore ==
    TEAMS[1].team \o <<"_">> \o SplitOnce(TEAMS[1].players[1])[1] \o <<"_">>
    \o SplitOnce(TEAMS[1].players[1])[2] \o <<"_","1",".","J","P","G">>

\* conflict_newname = f"{conflict_team}_{first} {last}_1.JPG"
conflict_player == TEAMS[1].players[1]
conflict_team == TEAMS[1].team
conflict_newname ==
    conflict_team \o <<"_">> \o First(conflict_player) \o <<" ">>
    \o Last(conflict_player) \o <<"_","1",".","J","P","G">>

\* Variant: rows[-5:]
FirstRows_last(r) == SubSeq(r, IF Len(r) < 5 THEN 1 ELSE Len(r) - 4, Len(r))

\* rows[:5]
FirstRows(r) == SubSeq(r, 1, IF Len(r) < 5 THEN Len(r) ELSE 5)

\* The lines of roster.csv: the header, then one line per row
TableLines(r) ==
    <<writerow(CSV_HEADER)>> \o [i \in 1..Len(r) |-> writerow(r[i])]

\* What the instructions interpolate: the teams, the two seeded names
ReadmeParts ==
    <<JoinWith(<<",", " ">>, [i \in 1..Len(TEAMS) |-> TEAMS[i].team]),
      conflict_newname, INVALID_NAME>>

\* The names in a directory
NamesIn(d) == {p[2] : p \in {q \in DOMAIN files : q[1] = d}}

(***************************************************************************)
(* main and create_sports_test_job: steps                                  *)
(***************************************************************************)

Locals == <<mkIdx, ti, pi, pose_count, pose_idx, counter, rows, created_files,
            pose_counts>>
Disk == <<dirs, files>>

\* Variant: the handler prints and falls through to return 0
ReturnError_zero == status' = 0 /\ pc' = "idle"

\* main: except Exception as e: print, return 1.  The step that raises ends
\* in this handler: the process is over
ReturnError == status' = 1 /\ pc' = "idle"

\* Variant: the generator is not seeded, it starts anywhere in its stream
StartProcess_unseeded ==
    /\ pc = "idle"
    /\ runs < MaxRuns
    /\ runs' = runs + 1
    /\ rngPos' \in 0..(StreamPeriod - 1)
    /\ mkIdx' = 1 /\ ti' = 1 /\ pi' = 1
    /\ pose_count' = 0 /\ pose_idx' = 0
    /\ counter' = 1 /\ rows' = <<>> /\ created_files' = <<>>
    /\ pose_counts' = <<>>
    /\ pc' = "reset"
    /\ UNCHANGED <<stream, dirs, files, status, prev>>

\* A new process: the module is loaded (RANDOM seeded), main() parses args
StartProcess ==
    /\ pc = "idle"
    /\ runs < MaxRuns
    /\ runs' = runs + 1
    /\ rngPos' = 0
    /\ mkIdx' = 1 /\ ti' = 1 /\ pi' = 1
    /\ pose_count' = 0 /\ pose_idx' = 0
    /\ counter' = 1 /\ rows' = <<>> /\ created_files' = <<>>
    /\ pose_counts' = <<>>
    /\ pc' = "reset"
    /\ UNCHANGED <<stream, dirs, files, status, prev>>

\* Variant: the existing fixture is not removed
Reset_keep ==
    /\ pc = "reset"
    /\ pc' = "mkdir"
    /\ UNCHANGED <<stream, rngPos, dirs, files, runs, status, prev>>
    /\ UNCHANGED Locals

\* if job_path.exists(): shutil.rmtree(job_path)
Reset ==
    /\ pc = "reset"
    /\ IF JOB \in dirs
       THEN dirs' = {} /\ files' = NoFiles
       ELSE UNCHANGED Disk
    /\ pc' = "mkdir"
    /\ UNCHANGED <<stream, rngPos, runs, status, prev>>
    /\ UNCHANGED Locals

\* shutil.rmtree raises on the first entry it cannot remove
ResetFails ==
    /\ pc = "reset"
    /\ JOB \in dirs
    /\ UNCHANGED Disk
    /\ ReturnError
    /\ UNCHANGED <<stream, rngPos, runs, prev>>
    /\ UNCHANGED Locals

\* p.mkdir(parents=True, exist_ok=True) for the next p of the structure
MakeDir ==
    /\ pc = "mkdir"
    /\ dirs' = dirs \cup {JOB, STRUCTURE[mkIdx]}
    /\ IF mkIdx < Len(STRUCTURE)
       THEN mkIdx' = mkIdx + 1 /\ pc' = pc
       ELSE mkIdx' = mkIdx /\ pc' = "player"
    /\ UNCHANGED <<stream, rngPos, files, runs, status, prev>>
    /\ UNCHANGED <<ti, pi, pose_count, pose_idx, counter, rows, created_files,
                   pose_counts>>

\* mkdir raises: the parents may have been created already
MakeDirFails ==
    /\ pc = "mkdir"
    /\ dirs' \in {dirs, dirs \cup {JOB}}
    /\ ReturnError
    /\ UNCHANGED <<stream, rngPos, files, runs, prev>>
    /\ UNCHANGED Locals

\* for player in players: the split and pose_count = RANDOM.choice([2, 2, 3, 4])
BeginPlayer ==
    /\ pc = "player"
    /\ pose_count' = RandomChoice(POSE_COUNTS)
    /\ pose_counts' = Append(pose_counts, pose_count')
    /\ rngPos' = rngPos + 1
    /\ pose_idx' = 1
    /\ pc' = "pose"
    /\ UNCHANGED <<stream, dirs, files, runs, status, prev>>
    /\ UNCHANGED <<mkIdx, ti, pi, counter, rows, created_files>>

\* The three nested for loops step to the next pose, player or team
Advance ==
    IF pose_idx < pose_count
    THEN pose_idx' = pose_idx + 1 /\ pc' = "pose" /\ UNCHANGED <<ti, pi>>
    ELSE /\ pose_idx' = pose_idx
         /\ IF pi < Len(TEAMS[ti].players)
            THEN pi' = pi + 1 /\ ti' = ti /\ pc' = "player"
            ELSE IF ti < Len(TEAMS)
            THEN pi' = 1 /\ ti' = ti + 1 /\ pc' = "player"
            ELSE UNCHANGED <<ti, pi>> /\ pc' = "conflict"

\* One pass of the body of for pose_idx in range(1, pose_count + 1)
Shot ==
    /\ pc = "pose"
    /\ LET cam_name == next_camera_name(counter)
       IN  /\ files' = create_test_image(<<EXTRACTED, cam_name>>, Team,
                                         PoseSubtitle(Player, pose_idx))
           /\ created_files' = Append(created_files, cam_name)
           /\ rows' = Append(rows,
                        MakeRow(cam_name, First(Player), Last(Player), Team))
    /\ rngPos' = rngPos + 1
    /\ counter' = counter + 1
    /\ Advance
    /\ UNCHANGED <<stream, dirs, runs, status, prev, mkIdx, pose_count,
                   pose_counts>>

\* create_test_image raises in the loop body, after the name was drawn
ShotFails ==
    /\ pc = "pose"
    /\ files' \in FailedWrite(<<EXTRACTED, next_camera_name(counter)>>)
    /\ rngPos' = rngPos + 1
    /\ counter' = counter + 1
    /\ ReturnError
    /\ UNCHANGED <<stream, dirs, runs, prev>>
    /\ UNCHANGED <<mkIdx, ti, pi, pose_count, pose_idx, rows, created_files,
                   pose_counts>>

\* The seeded pre-existing file named like a future new name
SeedConflict ==
    /\ pc = "conflict"
    /\ files' = create_test_image(<<EXTRACTED, conflict_newname>>, conflict_team,
                    conflict_player \o <<" ","(","E","x","i","s","t","i","n","g",")">>)
    /\ pc' = "invalid"
    /\ UNCHANGED <<stream, rngPos, dirs, runs, status, prev>>
    /\ UNCHANGED Locals

SeedConflictFails ==
    /\ pc = "conflict"
    /\ files' \in FailedWrite(<<EXTRACTED, conflict_newname>>)
    /\ ReturnError
    /\ UNCHANGED <<stream, rngPos, dirs, runs, prev>>
    /\ UNCHANGED Locals

\* Variant: the invalid-name image is written to the job root
SeedInvalid_root ==
    /\ pc = "invalid"
    /\ files' = create_test_image(<<JOB, INVALID_NAME>>,
                    <<"I","n","v","a","l","i","d">>,
                    <<"F","i","l","e","n","a","m","e">>)
    /\ pc' = "extend"
    /\ UNCHANGED <<stream, rngPos, dirs, runs, status, prev>>
    /\ UNCHANGED Locals

\* The seeded invalid filename
SeedInvalid ==
    /\ pc = "invalid"
    /\ files' = create_test_image(<<EXTRACTED, INVALID_NAME>>,
                    <<"I","n","v","a","l","i","d">>,
                    <<"F","i","l","e","n","a","m","e">>)
    /\ pc' = "extend"
    /\ UNCHANGED <<stream, rngPos, dirs, runs, status, prev>>
    /\ UNCHANGED Locals

SeedInvalidFails ==
    /\ pc = "invalid"
    /\ files' \in FailedWrite(<<EXTRACTED, INVALID_NAME>>)
    /\ ReturnError
    /\ UNCHANGED <<stream, rngPos, dirs, runs, prev>>
    /\ UNCHANGED Locals

\* rows.extend(rows[:5])
DuplicateRows ==
    /\ pc = "extend"
    /\ rows' = rows \o FirstRows(rows)
    /\ pc' = "csv"
    /\ UNCHANGED <<stream, rngPos, dirs, files, runs, status, prev>>
    /\ UNCHANGED <<mkIdx, ti, pi, pose_count, pose_idx, counter, created_files,
                   pose_counts>>

\* with open(csv_path, "w", newline="") as f: the header, then every row
WriteCsv ==
    /\ pc = "csv"
    /\ files' = WriteFile(files, <<JOB, ROSTER_CSV>>, Table(TableLines(rows), runs))
    /\ pc' = "readme"
    /\ UNCHANGED <<stream, rngPos, dirs, runs, status, prev>>
    /\ UNCHANGED Locals

\* open or a write raises: no file, or the file truncated and holding nothing,
\* the header only, or all but the last line
WriteCsvFails ==
    /\ pc = "csv"
    /\ \/ UNCHANGED files
       \/ \E k \in {0, 1, Len(rows)} :
            files' = WriteFile(files, <<JOB, ROSTER_CSV>>,
                               Table(SubSeq(TableLines(rows), 1, k), runs))
    /\ ReturnError
    /\ UNCHANGED <<stream, rngPos, dirs, runs, prev>>
    /\ UNCHANGED Locals

\* with open(readme, "w") as f: f.write(...), then the summary is printed
WriteReadme ==
    /\ pc = "readme"
    /\ files' = WriteFile(files, <<JOB, README_NAME>>, Text(ReadmeParts, runs))
    /\ pc' = "done"
    /\ UNCHANGED <<stream, rngPos, dirs, runs, status, prev>>
    /\ UNCHANGED Locals

WriteReadmeFails ==
    /\ pc = "readme"
    /\ files' \in FailedWrite(<<JOB, README_NAME>>)
    /\ ReturnError
    /\ UNCHANGED <<stream, rngPos, dirs, runs, prev>>
    /\ UNCHANGED Locals

\* main: create_sports_test_job returned: return 0
ReturnOk ==
    /\ pc = "done"
    /\ status' = 0
    /\ prev' = [valid |-> TRUE,
                table |-> files[<<JOB, ROSTER_CSV>>].body,
                names |-> NamesIn(EXTRACTED)]
    /\ pc' = "idle"
    /\ UNCHANGED <<stream, rngPos, dirs, files, runs>>
    /\ UNCHANGED Locals

Next ==
    \/ StartProcess
    \/ Reset
    \/ ResetFails
    \/ MakeDir
    \/ MakeDirFails
    \/ BeginPlayer
    \/ Shot
    \/ ShotFails
    \/ SeedConflict
    \/ SeedConflictFails
    \/ SeedInvalid
    \/ SeedInvalidFails
    \/ DuplicateRows
    \/ WriteCsv
    \/ WriteCsvFails
    \/ WriteReadme
    \/ WriteReadmeFails
    \/ ReturnOk

Spec == Init /\ [][Next]_vars

(***************************************************************************)
(* Reading the fixture back, as the consuming application does             *)
(***************************************************************************)

\* A line without its "\r\n" terminator
StripEol(line) ==
    IF Len(line) >= 2 /\ line[Len(line) - 1] = "\r" /\ line[Len(line)] = "\n"
    THEN SubSeq(line, 1, Len(line) - 2)
    ELSE line

\* The fields of a CSV record: commas split outside quotes, "" is a quote
RECURSIVE ParseFrom(_, _, _, _, _)
ParseFrom(s, i, cur, quoted, acc) ==
    IF i > Len(s) THEN Append(acc, cur)
    ELSE IF quoted
    THEN IF s[i] = "\""
         THEN IF i < Len(s) /\ s[i + 1] = "\""
              THEN ParseFrom(s, i + 2, Append(cur, "\""), TRUE, acc)
              ELSE ParseFrom(s, i + 1, cur, FALSE, acc)
         ELSE ParseFrom(s, i + 1, Append(cur, s[i]), TRUE, acc)
    ELSE IF s[i] = "," THEN ParseFrom(s, i + 1, <<>>, FALSE, Append(acc, cur))
    ELSE IF s[i] = "\"" THEN ParseFrom(s, i + 1, cur, TRUE, acc)
    ELSE ParseFrom(s, i + 1, Append(cur, s[i]), FALSE, acc)

ParseLine(line) == ParseFrom(StripEol(line), 1, <<>>, FALSE, <<>>)

\* The data rows of roster.csv as read back from the file (header skipped)
NumDataRows == Len(files[<<JOB, ROSTER_CSV>>].body) - 1
DataRow(i) == ParseLine(files[<<JOB, ROSTER_CSV>>].body[i + 1])

\* The rename rule of the application: team_firstName lastName_pose.JPG
RenameRule(row, k) ==
    row[8] \o <<"_">> \o row[2] \o <<" ">> \o row[3] \o <<"_">> \o Digits(k)
    \o <<".","J","P","G">>

\* TEAMS flattened: one [team, player] per player, in table order
RECURSIVE PlayersFrom(_)
PlayersFrom(t) ==
    IF t > Len(TEAMS) THEN <<>>
    ELSE [j \in 1..Len(TEAMS[t].players) |->
             [team |-> TEAMS[t].team, player |-> TEAMS[t].players[j]]]
         \o PlayersFrom(t + 1)

AllPlayers == PlayersFrom(1)

\* The shots of the players 1..n given their pose counts: team order, then
\* player order, then pose 1..count
RECURSIVE ShotsUpTo(_, _)
ShotsUpTo(counts, n) ==
    IF n = 0 THEN <<>>
    ELSE ShotsUpTo(counts, n - 1)
         \o [k \in 1..counts[n] |->
                [team |-> AllPlayers[n].team, player |-> AllPlayers[n].player,
                 pose |-> k]]

RECURSIVE SumSeq(_)
SumSeq(q) == IF q = <<>> THEN 0 ELSE Head(q) + SumSeq(Tail(q))

HasSpace(s) == \E i \in 1..Len(s) : s[i] = " "

\* create_sports_test_job has run to its end: main returns 0 next, which
\* changes neither the disk nor the local variables
Completed == pc = "done"

ImageCount == Cardinality(NamesIn(EXTRACTED))

(***************************************************************************)
(* Claims                                                                  *)
(***************************************************************************)

\* C1: after a successful run the number of files in Extracted is the sum of
\* the per-player pose counts over all teams plus exactly 2: no shot image,
\* conflict image or invalid-name image overwrote another.  (Nor could one
\* under other pattern draws: over the counters used, all camera names of all
\* patterns, the conflict name and the invalid name are different names.)
C1_ImageCount ==
    Completed =>
        /\ Len(pose_counts) = Len(AllPlayers)
        /\ ImageCount = SumSeq(pose_counts) + 2
        /\ counter - 1 = SumSeq(pose_counts)
        /\ LET calls == (1..Len(CAMERA_PATTERNS)) \X (1..(counter - 1))
           IN  Cardinality({CameraName(CAMERA_PATTERNS[x[1]], x[2]) : x \in calls}
                           \cup {conflict_newname, INVALID_NAME})
                 = Cardinality(calls) + 2

\* A successful run in which the three pose counts 2, 3 and 4 were all drawn
C1_Witness ==
    /\ Completed
    /\ {pose_counts[i] : i \in 1..Len(pose_counts)} = {2, 3, 4}
    /\ ImageCount = SumSeq(pose_counts) + 2

\* C2: for the counter sequence 1,2,3,... the names next_camera_name returns
\* are pairwise distinct whatever pattern each call chooses, so column 0 is
\* unique among the real rows.  (At the end of the loop: over all the
\* counters used, no two (pattern, counter) choices give the same name.)
C2_DistinctNames ==
    /\ pc \in {"player", "pose", "conflict"} =>
         /\ Len(created_files) = counter - 1
         /\ Cardinality({created_files[i] : i \in 1..Len(created_files)})
              = Len(created_files)
         /\ \A i \in 1..Len(created_files) : rows[i][1] = created_files[i]
    /\ pc = "extend" =>
         LET calls == (1..Len(CAMERA_PATTERNS)) \X (1..(counter - 1))
         IN  Cardinality({CameraName(CAMERA_PATTERNS[x[1]], x[2]) : x \in calls})
               = Cardinality(calls)

\* All real rows written, with all three patterns in use
C2_Witness ==
    /\ pc = "extend"
    /\ Len(rows) >= 30
    /\ {rows[i][1][1] : i \in 1..Len(rows)} = {"I", "D", "P"}

\* C3: a run over an existing fixture replaces it entirely: after the
\* successful re-run the files under the fixture root are exactly those the
\* run wrote, and none from before the run remains (none is left once the
\* reset step is over).
C3_Replaced ==
    /\ pc = "mkdir" => files = NoFiles
    /\ Completed =>
           /\ \A p \in DOMAIN files : files[p].mtime = runs
           /\ DOMAIN files =
                {<<EXTRACTED, created_files[i]>> : i \in 1..Len(created_files)}
                \cup {<<EXTRACTED, conflict_newname>>, <<EXTRACTED, INVALID_NAME>>,
                      <<JOB, ROSTER_CSV>>, <<JOB, README_NAME>>}

\* The second run ends over the complete fixture the first run left
C3_Witness == Completed /\ runs = 2 /\ prev.valid /\ status = 0

\* C4: the conflict image is named by the rename rule for the first pose of
\* the first player of the first team, "Tigers_John Doe_1.JPG"; at the end of
\* a successful run it is in Extracted together with the camera-named image
\* of that shot, and it differs from every camera-style name.
C4_Conflict ==
    Completed =>
        /\ conflict_newname = RenameRule(DataRow(1), 1)
        /\ conflict_newname =
             <<"T","i","g","e","r","s","_","J","o","h","n"," ","D","o","e",
               "_","1",".","J","P","G">>
        /\ conflict_newname \in NamesIn(EXTRACTED)
        /\ DataRow(1)[1] \in NamesIn(EXTRACTED)
        /\ files[<<EXTRACTED, DataRow(1)[1]>>].body
             = <<TEAMS[1].team, PoseSubtitle(TEAMS[1].players[1], 1)>>
        /\ \A c \in 1..(counter - 1) : \A p \in 1..Len(CAMERA_PATTERNS) :
              conflict_newname # CameraName(CAMERA_PATTERNS[p], c)

C4_Witness ==
    /\ Completed
    /\ {conflict_newname, DataRow(1)[1]} \subseteq NamesIn(EXTRACTED)
    /\ conflict_newname # DataRow(1)[1]

\* C5: the data rows of roster.csv are the real rows, one per shot in team,
\* then player, then ascending pose order, followed by exactly 5 rows equal
\* field for field to real rows 1..5 in order, and nothing else.
C5_RowOrder ==
    Completed =>
        LET shots == ShotsUpTo(pose_counts, Len(pose_counts))
            n == Len(shots)
        IN  /\ NumDataRows = n + 5
            /\ \A i \in 1..n :
                 LET r == DataRow(i)
                 IN  /\ r[8] = shots[i].team
                     /\ r[2] \o <<" ">> \o r[3] = shots[i].player
                     /\ files[<<EXTRACTED, r[1]>>].body
                          = <<shots[i].team,
                              PoseSubtitle(shots[i].player, shots[i].pose)>>
            /\ \A j \in 1..5 : DataRow(n + j) = DataRow(j)

\* A successful run whose first five rows span more than one player
C5_Witness ==
    /\ Completed
    /\ NumDataRows = Len(created_files) + 5
    /\ DataRow(Len(created_files) + 5) = DataRow(5)
    /\ DataRow(5)[2] # DataRow(1)[2]

\* C6 as stated: between 35 and 65 data rows, and the number of files in
\* Extracted is that number of data rows plus 2.
C6_Original ==
    Completed =>
        /\ NumDataRows >= 35 /\ NumDataRows <= 65
        /\ ImageCount = NumDataRows + 2

\* C6 amended: with the 3 teams of 5 players there are between 35 and 65 data
\* rows, and the number of files in Extracted is the number of real rows plus
\* 2, that is the number of data rows minus the 5 duplicated rows, plus 2.
C6_RowsAndImages ==
    Completed =>
        /\ Len(AllPlayers) = 15
        /\ NumDataRows >= 35 /\ NumDataRows <= 65
        /\ ImageCount = (NumDataRows - 5) + 2

\* The upper bound is met: every player drew 4 poses
C6_Witness ==
    /\ Completed
    /\ NumDataRows = 65
    /\ ImageCount = 62

\* C7: two processes, each seeded afresh, run on the same base path produce
\* the same metadata rows, the same table and the same set of file names in
\* Extracted.
C7_Reproducible ==
    (pc = "done" /\ prev.valid) =>
        /\ TableLines(rows) = prev.table
        /\ files[<<JOB, ROSTER_CSV>>].body = prev.table
        /\ NamesIn(EXTRACTED) = prev.names

\* A second successful process ends after a first one, with draws that differ
\* from one another within the run
C7_Witness ==
    /\ pc = "done" /\ prev.valid /\ runs >= 2
    /\ Cardinality({pose_counts[i] : i \in 1..Len(pose_counts)}) >= 2
    /\ Cardinality(prev.names) = Len(created_files) + 2

\* C8: every data row of roster.csv, real or duplicated, has exactly 8
\* columns: column 0 the camera file name of its shot, columns 1 and 2 the
\* player's name split at its first space, columns 3 to 5 empty, columns 6
\* and 7 the name of the player's team.
C8_Columns ==
    Completed =>
        \A i \in 1..NumDataRows :
            LET r == DataRow(i)
            IN  /\ Len(r) = 8
                /\ r[4] = <<>> /\ r[5] = <<>> /\ r[6] = <<>>
                /\ r[7] = r[8]
                /\ ~HasSpace(r[2])
                /\ \E j \in 1..Len(AllPlayers) :
                      /\ AllPlayers[j].team = r[8]
                      /\ AllPlayers[j].player = r[2] \o <<" ">> \o r[3]
                /\ <<EXTRACTED, r[1]>> \in DOMAIN files
                /\ LET img == files[<<EXTRACTED, r[1]>>]
                   IN  /\ img.kind = "image"
                       /\ img.body[1] = r[8]
                       /\ \E k \in 1..4 :
                             img.body[2] = PoseSubtitle(r[2] \o <<" ">> \o r[3], k)

\* The last duplicated row of a complete table, read back with 8 columns
C8_Witness ==
    /\ Completed
    /\ NumDataRows >= 35
    /\ Len(DataRow(NumDataRows)) = 8
    /\ DataRow(NumDataRows)[8] = TEAMS[1].team

\* The instructions file of the current process is completely written
InstructionsWritten ==
    /\ <<JOB, README_NAME>> \in DOMAIN files
    /\ files[<<JOB, README_NAME>>] = Text(ReadmeParts, runs)

\* roster.csv exists in the next state and was written by the current process
TableOfThisRun ==
    /\ <<JOB, ROSTER_CSV>> \in DOMAIN files'
    /\ files'[<<JOB, ROSTER_CSV>>].mtime = runs

\* C9: when a step fails no later step runs (the process ends there), nothing
\* the run wrote is cleaned up and main returns 1; main returns 0 only when
\* every step completed; a failure before the table write leaves no
\* roster.csv of this run.
C9_Abort ==
    /\ [](pc = "idle" /\ runs > 0 => (status = 0 <=> InstructionsWritten))
    /\ [][(pc # "idle" /\ pc' = "idle") =>
            /\ status' = 0 <=> pc = "done"
            /\ \A p \in DOMAIN files :
                  files[p].mtime = runs =>
                     p \in DOMAIN files' /\ files'[p] = files[p]
            /\ pc # "reset" => dirs \subseteq dirs'
            /\ pc \notin {"csv", "readme", "done"} => ~TableOfThisRun
            /\ UNCHANGED <<rows, created_files>>]_vars

\* main returned 1 after the run had rendered shots, which are still there,
\* and there is no roster.csv
C9_Witness ==
    /\ pc = "idle" /\ status = 1
    /\ Len(created_files) >= 1
    /\ \A i \in 1..Len(created_files) :
          /\ <<EXTRACTED, created_files[i]>> \in DOMAIN files
          /\ files[<<EXTRACTED, created_files[i]>>].mtime = runs
    /\ <<JOB, ROSTER_CSV>> \notin DOMAIN files

\* C10: after a successful run the fixture root holds the four directories;
\* Output, Finished Teams and For Upload are empty, every rendered image is
\* in Extracted and roster.csv is at the root; no step of a run writes an
\* image outside Extracted.
C10_Layout ==
    /\ \A p \in DOMAIN files :
          p[1] # EXTRACTED => ~(files[p].kind = "image" /\ files[p].mtime >= 1)
    /\ Completed =>
          /\ dirs = {JOB, EXTRACTED, OUTPUT, FINISHED, FOR_UPLOAD}
          /\ NamesIn(OUTPUT) = {} /\ NamesIn(FINISHED) = {}
          /\ NamesIn(FOR_UPLOAD) = {}
          /\ \A i \in 1..Len(created_files) :
                created_files[i] \in NamesIn(EXTRACTED)
          /\ {conflict_newname, INVALID_NAME} \subseteq NamesIn(EXTRACTED)
          /\ \A n \in NamesIn(EXTRACTED) : files[<<EXTRACTED, n>>].kind = "image"
          /\ <<JOB, ROSTER_CSV>> \in DOMAIN files
          /\ files[<<JOB, ROSTER_CSV>>].kind = "csv"

\* A successful first run: Output exists and is empty, the invalid-name image
\* is in Extracted
C10_Witness ==
    /\ Completed /\ runs = 1
    /\ NamesIn(OUTPUT) = {}
    /\ INVALID_NAME \in NamesIn(EXTRACTED)
    /\ OUTPUT \in dirs

=============================================================================
